---- MODULE Spec2Model ----
(***************************************************************************)
(* Model of the Asana task-creation flow of the obsidian-asana plugin:     *)
(* AsanaPlugin.createAsanaTask / promptForTaskDetails / promptForSelection *)
(* (main.ts), FuzzySelectModal (ui/FuzzySelectModal.ts) and the request    *)
(* functions of api/asanaApi.ts.                                           *)
(*                                                                         *)
(* Strings are sequences of tokens: a token is one significant character   *)
(* ("-", "*", " ", "[", "]", "x", "X") or an atomic run of other           *)
(* characters (a word, a name, a gid, a url).  Concatenation is \o.        *)
(***************************************************************************)
EXTENDS Integers, Sequences, FiniteSets, TLC

\* ------------------------------------------------------------------ bounds
MaxWorkspaces == 2
MaxProjects == 1
MaxSections == 2
MaxChooseEvents == 2
MaxOptionProjects == 3
MaxFormActions == 2
MaxWriterColumn == 4
MaxLiveChanges == 1

\* ------------------------------------------------------- values and pools
NULL == [null |-> TRUE]
UNDEFINED == [undefined |-> TRUE]

WorkspacePool ==
  << [name |-> "W1", gid |-> "w1"], [name |-> "W2", gid |-> "w2"],
     [name |-> "W3", gid |-> "w3"] >>
ProjectPool ==
  << [name |-> "P1", gid |-> "p1"], [name |-> "P2", gid |-> "p2"],
     [name |-> "P3", gid |-> "p3"] >>
SectionPool ==
  << [name |-> "S1", gid |-> "s1"], [name |-> "S2", gid |-> "s2"],
     [name |-> "S3", gid |-> "s3"] >>
UserGids == {"u1"}
TaskListGids == {"tl1"}
TaskGids == {"t1"}
Permalinks == {"url1"}

Prefixes(pool, max) == { SubSeq(pool, 1, n) : n \in 0..max }
WorkspaceLists == Prefixes(WorkspacePool, MaxWorkspaces)
ProjectLists == Prefixes(ProjectPool, MaxProjects)
SectionLists == Prefixes(SectionPool, MaxSections)

\* outcome of requestUrl: resolved with a 2xx status, resolved with a
\* non-2xx status, or rejected (network failure / thrown by the host)
Outcomes == {"ok", "status", "reject"}

\* ----------------------------------------------------------- string tools
IsSpace(t) == t = " "

RECURSIVE SkipSpaces(_)
SkipSpaces(s) ==
  IF s # <<>> /\ IsSpace(Head(s)) THEN SkipSpaces(Tail(s)) ELSE s

SkipMarker(s) ==
  IF s # <<>> /\ Head(s) \in {"-", "*"} THEN SkipSpaces(Tail(s)) ELSE s

SkipCheckbox(s) ==
  IF Len(s) >= 3 /\ s[1] = "[" /\ s[2] \in {" ", "x", "X"} /\ s[3] = "]"
  THEN SkipSpaces(SubSeq(s, 4, Len(s)))
  ELSE s

\* .replace(/^\s*(?:[-*]\s*)?(?:\[[ xX]\]\s*)?/, '')
StripListPrefix(s) == SkipCheckbox(SkipMarker(SkipSpaces(s)))

RECURSIVE TrimEnd(_)
TrimEnd(s) ==
  IF s # <<>> /\ IsSpace(s[Len(s)]) THEN TrimEnd(SubSeq(s, 1, Len(s) - 1)) ELSE s

Trim(s) == TrimEnd(SkipSpaces(s))

\* task name computed by createAsanaTask from the selection or the line
TaskNameOf(text) == Trim(StripListPrefix(text))

\* String.prototype.replace(pattern: string, replacement): first occurrence
Occurrences(s, pat) ==
  { i \in 1..(Len(s) - Len(pat) + 1) : SubSeq(s, i, i + Len(pat) - 1) = pat }

Min(S) == CHOOSE m \in S : \A n \in S : m <= n

ReplaceFirst(s, pat, rep) ==
  IF Occurrences(s, pat) = {} THEN s
  ELSE LET i == Min(Occurrences(s, pat))
       IN SubSeq(s, 1, i - 1) \o rep \o SubSeq(s, i + Len(pat), Len(s))

\* a template-literal hole ${name}: the empty string contributes nothing
Tok(str) == IF str = "" THEN <<>> ELSE <<str>>

Unchecked == <<"-", " ", "[", " ", "]">>
Checked == <<"-", " ", "[", "x", "]">>

\* ----------------------------------------------------------------- editor
\* editor = [lines, line, from, to]: the cursor is on line `line`; the
\* selection is the tokens from..to-1 of that line (empty when from = to)
GetSelection(ed) == SubSeq(ed.lines[ed.line], ed.from, ed.to - 1)
GetLine(ed, n) == ed.lines[n]
SetLine(ed, n, text) == [ed EXCEPT !.lines[n] = text]
ReplaceSelection(ed, text) ==
  LET l == ed.lines[ed.line]
  IN [ed EXCEPT !.lines[ed.line] =
                    SubSeq(l, 1, ed.from - 1) \o text \o SubSeq(l, ed.to, Len(l)),
                !.from = ed.from + Len(text),
                !.to = ed.from + Len(text)]

\* mutant: the section is named before the project
LinkTextSwapped(projectName, sectionName, taskUrl) ==
  <<"[asana#">> \o Tok(sectionName) \o <<"/">> \o Tok(projectName)
     \o <<"](">> \o Tok(taskUrl) \o <<")">>

LinkText(projectName, sectionName, taskUrl) ==
  <<"[asana#">> \o Tok(projectName) \o <<"/">> \o Tok(sectionName)
     \o <<"](">> \o Tok(taskUrl) \o <<")">>

\* mutant: the enableMarkdownLink setting is not consulted
updateEditorAlways(ed, st, taskUrl, projectName, sectionName) ==
  LET linkText == LinkText(projectName, sectionName, taskUrl)
      selectedText == GetSelection(ed)
  IN IF selectedText # <<>>
     THEN ReplaceSelection(ed, selectedText \o <<" ">> \o linkText)
     ELSE SetLine(ed, ed.line, GetLine(ed, ed.line) \o <<" ">> \o linkText)

updateEditorWithTaskLink(ed, st, taskUrl, projectName, sectionName) ==
  IF ~st.enableMarkdownLink THEN ed
  ELSE LET linkText == LinkText(projectName, sectionName, taskUrl)
           selectedText == GetSelection(ed)
       IN IF selectedText # <<>>
          THEN ReplaceSelection(ed, selectedText \o <<" ">> \o linkText)
          ELSE SetLine(ed, ed.line, GetLine(ed, ed.line) \o <<" ">> \o linkText)

markTaskAsCompleted(ed) ==
  SetLine(ed, ed.line, ReplaceFirst(GetLine(ed, ed.line), Unchecked, Checked))

\* ------------------------------------------------------------ api/asanaApi
Request(op, method, url, body, token) ==
  [ev |-> "request", op |-> op, method |-> method, url |-> url,
   body |-> body, token |-> token]

NoBody == UNDEFINED

\* JSON.stringify of an object literal: an object literal is a sequence of
\* fields [key, def, val]; a field whose value is undefined (def = FALSE) is
\* dropped, and the body maps each remaining key to its value
JSONStringify(obj) ==
  LET kept == SelectSeq(obj, LAMBDA f : f.def)
      keys == { kept[k].key : k \in DOMAIN kept }
  IN [key \in keys |-> kept[CHOOSE k \in DOMAIN kept : kept[k].key = key].val]

Field(key, val) == [key |-> key, def |-> TRUE, val |-> val]

fetchAsanaWorkspaces(st) ==
  Request("fetchAsanaWorkspaces", "GET", <<"/workspaces">>, NoBody, st.asanaToken)

fetchAsanaProjects(workspaceGid, st) ==
  Request("fetchAsanaProjects", "GET",
          <<"/workspaces/", workspaceGid, "/projects">>
             \o Tok(IF st.showArchivedProjects THEN "" ELSE "?is_archived=false"),
          NoBody, st.asanaToken)

fetchAsanaSections(gid, st) ==
  Request("fetchAsanaSections", "GET", <<"/projects/", gid, "/sections">>,
          NoBody, st.asanaToken)

fetchAsanaUser(st) ==
  Request("fetchAsanaUser", "GET", <<"/users/me">>, NoBody, st.asanaToken)

fetchUserTaskListGid(workspaceGid, st) ==
  Request("fetchUserTaskListGid", "GET",
          <<"/users/me/user_task_list?workspace=", workspaceGid>>,
          NoBody, st.asanaToken)

\* mutant: the assignee is set whatever the project
CreateTaskDataAlwaysAssigned(taskName, workspaceGid, projectGid) ==
  << Field("name", taskName), Field("workspace", workspaceGid) >>
    \o (IF projectGid # "" THEN << Field("projects", <<projectGid>>) >> ELSE <<>>)
    \o << Field("assignee", "me") >>

\* the object literal passed to JSON.stringify by createTaskInAsana
CreateTaskData(taskName, workspaceGid, projectGid) ==
  << Field("name", taskName), Field("workspace", workspaceGid) >>
    \o (IF projectGid # "" THEN << Field("projects", <<projectGid>>) >> ELSE <<>>)
    \o << [key |-> "assignee", def |-> (projectGid = ""),
           val |-> IF projectGid # "" THEN UNDEFINED ELSE "me"] >>

createTaskRequest(taskName, workspaceGid, projectGid, st) ==
  Request("createTask", "POST", <<"/tasks">>,
          JSONStringify(CreateTaskData(taskName, workspaceGid, projectGid)),
          st.asanaToken)

addTaskRequest(sectionGid, taskGid, st) ==
  Request("addTask", "POST", <<"/sections/", sectionGid, "/addTask">>,
          JSONStringify(<< Field("task", taskGid) >>), st.asanaToken)

getTaskRequest(taskGid, st) ==
  Request("getTask", "GET", <<"/tasks/", taskGid>>, NoBody, st.asanaToken)

\* message of the Error thrown by the catch block of each api function
\* mutant: every catch block carries the message of the first one
FailMessageCopied(op) == "Failed to retrieve workspaces from Asana"

FailMessage(op) ==
  CASE op = "fetchAsanaWorkspaces" -> "Failed to retrieve workspaces from Asana"
    [] op = "fetchAsanaProjects" -> "Failed to retrieve projects from Asana"
    [] op = "fetchAsanaSections" -> "Failed to retrieve sections from Asana"
    [] op = "fetchAsanaUser" -> "Failed to retrieve user data from Asana"
    [] op = "fetchUserTaskListGid" -> "Failed to retrieve user task list from Asana"
    [] OTHER -> "Failed to create task in Asana"

\* the operation of api/asanaApi a request belongs to
OperationOf(op) ==
  IF op \in {"createTask", "addTask", "getTask"} THEN "createTaskInAsana" ELSE op

\* what reaches the catch block of an operation: the error requestUrl
\* rejected with, or the one thrown by the status check,
\* new Error(`Asana API Error: ${response.text}`)
NetworkMessage == "net::ERR_INTERNET_DISCONNECTED"
InnerError(outcome) ==
  IF outcome = "status"
  THEN [kind |-> "remote", message |-> "Asana API Error: Not Authorized"]
  ELSE [kind |-> "network", message |-> NetworkMessage]

\* mutant: the catch block rethrows the error it caught
RethrownAsCaught(op, error) == error.message

\* catch (error) { console.error(...); throw new Error('Failed to ...') }:
\* the message of the error the operation rejects with
Rethrown(op, error) == FailMessage(op)

\* ---------------------------------------------------------------- notices
Notice(text) == [ev |-> "notice", text |-> text]
TokenNotice == <<"Asana Personal Access Token not set in plugin settings.">>
WorkspaceCanceledNotice == <<"Workspace selection was canceled.">>
ProjectCanceledNotice == <<"Project selection was canceled.">>
SectionCanceledNotice == <<"Section selection was canceled.">>
NoSectionsNotice == <<"No sections found. Skipping section selection.">>
FetchErrorNotice(message) == <<"Error fetching Asana data: ", message>>
CreateErrorNotice(message) == <<"Error creating Asana task: ", message>>

Response(i, outcome, data) ==
  [ev |-> "response", req |-> i, outcome |-> outcome, data |-> data]
\* an operation of api/asanaApi rejected with Error(message)
Thrown(op, message) == [ev |-> "throw", op |-> op, message |-> message]
\* editor.setLine / editor.replaceSelection called by `by`; text is the
\* line afterwards
Wrote(by, n, text) == [ev |-> "write", by |-> by, line |-> n, text |-> text]
Opened(title, id) == [ev |-> "open", title |-> title, id |-> id]
Resolved(id, value) == [ev |-> "resolve", id |-> id, value |-> value]

\* ------------------------------------------------------------------ state
VARIABLES
  settings,   \* AsanaPlugin.settings
  editor,     \* the host editor: document lines, cursor line, selection
  pc,         \* position of the one createAsanaTask invocation
  local,      \* its local variables
  log,        \* everything observable, in order: requests, responses,
              \* notices, picker openings and picker resolutions
  pending,    \* indices in log of the requests still in flight
  modal,      \* the current FuzzySelectModal instance
  call,       \* one application of the option-list construction of
              \* promptForTaskDetails, taken on its own: input and result
  disk,       \* the plugin's persisted data (loadData / saveData) and the
              \* saveData calls still in flight
  tab         \* the user's side: tempKeyValue of AsanaSettingTab, the number
              \* of its handlers run and of the user's steps in the editor

vars == <<settings, editor, pc, local, log, pending, modal, call, disk, tab>>

DEFAULT_SETTINGS ==
  [asanaToken |-> "", markTaskAsCompleted |-> FALSE, pinnedProjects |-> <<>>,
   enableMarkdownLink |-> TRUE, showArchivedProjects |-> FALSE, pinMyTasks |-> TRUE]

Tokens == {"", "tok"}
PinnedChoices == { <<>>, <<"p1">> }

SettingsSet ==
  [asanaToken : Tokens, markTaskAsCompleted : BOOLEAN,
   pinnedProjects : PinnedChoices, enableMarkdownLink : BOOLEAN,
   showArchivedProjects : BOOLEAN, pinMyTasks : BOOLEAN]

UncheckedLine == <<"-", " ", "[", " ", "]", " ", "buy milk">>
StarLine == <<" ", "*", " ", "[", " ", "]", " ", "buy milk">>
PlainLine == <<"buy milk">>

EditorOn(l, f) ==
  [lines |-> <<l, <<"other">>>>, line |-> 1, from |-> f, to |-> Len(l) + 1]

\* the cursor is on the first line, with nothing selected or (for the plain
\* line) the whole line selected
Editors ==
  { EditorOn(UncheckedLine, Len(UncheckedLine) + 1),
    EditorOn(StarLine, Len(StarLine) + 1),
    EditorOn(PlainLine, 1) }

NoModal ==
  [id |-> 0, title |-> "", items |-> <<>>, open |-> FALSE, resolved |-> FALSE,
   selectedItem |-> NULL, resolveCalls |-> 0, events |-> <<>>]

InitLocal ==
  [taskName |-> <<>>, editor0 |-> NULL, settings0 |-> NULL, editor1 |-> NULL,
   wsDone |-> FALSE, userDone |-> FALSE,
   workspaces |-> <<>>, userGid |-> "", workspace |-> NULL,
   projectOptions |-> <<>>, project |-> NULL, taskListGid |-> "",
   sections |-> <<>>, sectionsFetched |-> FALSE, selectedSection |-> NULL,
   taskDetails |-> NULL, taskGid |-> "", returned |-> FALSE, result |-> NULL]

NoCall == [projects |-> <<>>, userGid |-> "", options |-> <<>>, done |-> FALSE]

\* the data file holds what the last saveSettings wrote
DiskOf(st) == [data |-> st, saves |-> <<>>]
NoTab == [tempKeyValue |-> <<>>, handlers |-> 0, edits |-> 0]

Init ==
  /\ settings \in SettingsSet
  /\ editor \in Editors
  /\ pc = "idle"
  /\ local = InitLocal
  /\ log = <<>>
  /\ pending = {}
  /\ modal = NoModal
  /\ call = NoCall
  /\ disk = DiskOf(settings)
  /\ tab = NoTab

\* ------------------------------------------------------- FuzzySelectModal
\* new FuzzySelectModal(app, title, items, resolve); modal.open()
NewModal(title, items) ==
  [id |-> modal.id + 1, title |-> title, items |-> items, open |-> TRUE,
   resolved |-> FALSE, selectedItem |-> NULL, resolveCalls |-> 0, events |-> <<>>]

\* mutant: the resolved flag is not consulted
NeverResolved(m) == FALSE

\* the guard of onChooseItem
AlreadyResolved(m) == m.resolved

\* onChooseItem(item): the modal after the event (events and resolveCalls
\* record the dispatched events and the calls of the resolve callback)
ChooseItem(m, item) ==
  IF ~AlreadyResolved(m)
  THEN [m EXCEPT !.open = FALSE, !.events = Append(@, item),
                 !.selectedItem = item, !.resolved = TRUE,
                 !.resolveCalls = @ + 1]
  ELSE [m EXCEPT !.open = FALSE, !.events = Append(@, item)]

IsMyTasks(item) == "isMyTasks" \in DOMAIN item /\ item.isMyTasks

MapNameGid(list) ==
  [k \in DOMAIN list |-> [name |-> list[k].name, gid |-> list[k].gid]]

\* mutant: the token check is missing
TokenNeverMissing(st) == FALSE

\* ---------------------------------------------------- promptForTaskDetails
TokenMissing(st) == st.asanaToken = ""

SeqToSet(q) == { q[k] : k \in DOMAIN q }

\* mutant: only the gid is looked up in the pinned set
IsPinnedByGid(p, pinnedProjectIds) == p.gid \in pinnedProjectIds

IsPinnedProject(p, pinnedProjectIds) ==
  p.gid \in pinnedProjectIds \/ p.name \in pinnedProjectIds

\* mutant: when My Tasks is not pinned it is appended after all projects
ProjectOptionsMyTasksLast(projects, userGid, st) ==
  LET pinnedProjectIds == SeqToSet(st.pinnedProjects)
      myTasksProject == [name |-> "My Tasks", gid |-> userGid,
                         isPinned |-> st.pinMyTasks, isMyTasks |-> TRUE]
      pinnedSel == SelectSeq(projects, LAMBDA q : IsPinnedProject(q, pinnedProjectIds))
      otherSel == SelectSeq(projects, LAMBDA q : ~IsPinnedProject(q, pinnedProjectIds))
      pinnedProjects == [k \in DOMAIN pinnedSel |->
                           [name |-> pinnedSel[k].name, gid |-> pinnedSel[k].gid,
                            isPinned |-> TRUE]]
      otherProjects == [k \in DOMAIN otherSel |->
                           [name |-> otherSel[k].name, gid |-> otherSel[k].gid,
                            isPinned |-> FALSE]]
  IN IF st.pinMyTasks
     THEN <<myTasksProject>> \o pinnedProjects \o otherProjects
     ELSE pinnedProjects \o otherProjects \o <<myTasksProject>>

ProjectOptions(projects, userGid, st) ==
  LET pinnedProjectIds == SeqToSet(st.pinnedProjects)
      myTasksProject == [name |-> "My Tasks", gid |-> userGid,
                         isPinned |-> st.pinMyTasks, isMyTasks |-> TRUE]
      pinnedSel == SelectSeq(projects, LAMBDA q : IsPinnedProject(q, pinnedProjectIds))
      otherSel == SelectSeq(projects, LAMBDA q : ~IsPinnedProject(q, pinnedProjectIds))
      pinnedProjects == [k \in DOMAIN pinnedSel |->
                           [name |-> pinnedSel[k].name, gid |-> pinnedSel[k].gid,
                            isPinned |-> TRUE]]
      otherProjects == [k \in DOMAIN otherSel |->
                           [name |-> otherSel[k].name, gid |-> otherSel[k].gid,
                            isPinned |-> FALSE]]
  IN IF st.pinMyTasks
     THEN <<myTasksProject>> \o pinnedProjects \o otherProjects
     ELSE pinnedProjects \o <<myTasksProject>> \o otherProjects

\* one step of the flow: the new position, locals, log, requests in flight
\* and modal
Goto(p, loc, lg, pend, m) ==
  /\ pc' = p
  /\ local' = loc
  /\ log' = lg
  /\ pending' = pend
  /\ modal' = m
  /\ UNCHANGED <<call, disk, tab>>

\* issue one request and suspend at position p
Await(p, loc, lg, pend, req, m) ==
  Goto(p, loc, Append(lg, req), pend \cup {Len(lg) + 1}, m)

\* promptForSelection(title, options): open a picker and suspend at p
Prompt(p, loc, lg, pend, title, options) ==
  LET m == NewModal(title, options)
  IN Goto(p, loc, Append(lg, Opened(title, m.id)), pend, m)

\* new Notice(text); return null  -- createAsanaTask then returns
AbortWith(text, loc, lg, pend, m) ==
  Goto("done", loc, Append(lg, Notice(text)), pend, m)

\* the operation `op` rejects after its request had outcome o
Reject(op, o, lg) ==
  Append(lg, Thrown(OperationOf(op), Rethrown(op, InnerError(o))))

\* the catch block of promptForTaskDetails
CatchFetchError(op, o, loc, lg, pend, m) ==
  AbortWith(FetchErrorNotice(Rethrown(op, InnerError(o))), loc,
            Reject(op, o, lg), pend, m)

\* createTaskInAsana rejects and the catch block of createAsanaTask runs
ThrowCreateError(op, o, loc, lg, pend, m) ==
  AbortWith(CreateErrorNotice(Rethrown(op, InnerError(o))), loc,
            Reject(op, o, lg), pend, m)

\* the catch block of createAsanaTask
CatchCreateError(message, loc, lg, pend, m) ==
  AbortWith(CreateErrorNotice(message), loc, lg, pend, m)

\* mutant: the name of the selected section is left out
TaskDetailsWithoutSectionName(workspace, project, selectedSection) ==
  [workspaceGid |-> workspace.gid,
   projectGid |-> IF IsMyTasks(project) THEN "" ELSE project.gid,
   sectionGid |-> IF selectedSection # NULL THEN selectedSection.gid ELSE "",
   projectName |-> project.name,
   sectionName |-> ""]

TaskDetailsOf(workspace, project, selectedSection) ==
  [workspaceGid |-> workspace.gid,
   projectGid |-> IF IsMyTasks(project) THEN "" ELSE project.gid,
   sectionGid |-> IF selectedSection # NULL THEN selectedSection.gid ELSE "",
   projectName |-> project.name,
   sectionName |-> IF selectedSection # NULL THEN selectedSection.name ELSE ""]

\* promptForTaskDetails returns its TaskDetails; createAsanaTask calls
\* createTaskInAsana, which issues POST /tasks
ReturnTaskDetails(selectedSection, loc, lg, pend, m) ==
  LET d == TaskDetailsOf(loc.workspace, loc.project, selectedSection)
  IN Await("awaitCreate",
           [loc EXCEPT !.selectedSection = selectedSection, !.taskDetails = d],
           lg, pend,
           createTaskRequest(loc.taskName, d.workspaceGid, d.projectGid, settings),
           m)

\* the gid whose sections are fetched for a regular project
SectionsContainer(project) == project.gid

\* the code after each `await this.promptForSelection(...)`
AfterWorkspaceSelection(workspace, loc, lg, pend, m) ==
  IF workspace = NULL
  THEN AbortWith(WorkspaceCanceledNotice, loc, lg, pend, m)
  ELSE Await("awaitProjects", [loc EXCEPT !.workspace = workspace], lg, pend,
             fetchAsanaProjects(workspace.gid, settings), m)

\* mutant: My Tasks is treated as a regular project
AfterProjectSelectionAsRegular(project, loc, lg, pend, m) ==
  IF project = NULL
  THEN AbortWith(ProjectCanceledNotice, loc, lg, pend, m)
  ELSE Await("awaitSections", [loc EXCEPT !.project = project], lg, pend,
             fetchAsanaSections(SectionsContainer(project), settings), m)


AfterProjectSelection(project, loc, lg, pend, m) ==
  IF project = NULL
  THEN AbortWith(ProjectCanceledNotice, loc, lg, pend, m)
  ELSE IF IsMyTasks(project)
       THEN Await("awaitTaskList", [loc EXCEPT !.project = project], lg, pend,
                  fetchUserTaskListGid(loc.workspace.gid, settings), m)
       ELSE Await("awaitSections", [loc EXCEPT !.project = project], lg, pend,
                  fetchAsanaSections(SectionsContainer(project), settings), m)

AfterSectionSelection(selectedSection, loc, lg, pend, m) ==
  IF selectedSection = NULL
  THEN AbortWith(SectionCanceledNotice, loc, lg, pend, m)
  ELSE ReturnTaskDetails(selectedSection, loc, lg, pend, m)

AfterSelection(result, loc, lg, pend, m) ==
  CASE pc = "pickWorkspace" -> AfterWorkspaceSelection(result, loc, lg, pend, m)
    [] pc = "pickProject" -> AfterProjectSelection(result, loc, lg, pend, m)
    [] pc = "pickSection" -> AfterSectionSelection(result, loc, lg, pend, m)

\* mutant: a single section is prompted for as well
NeedsSectionPickerForOne(sections) == Len(sections) > 0

\* which picker rounds the fetched sections require
NeedsSectionPicker(sections) == Len(sections) > 1

\* "Check the number of sections"
ResolveSections(sections, loc0, lg, pend, m) ==
  LET loc == [loc0 EXCEPT !.sections = sections, !.sectionsFetched = TRUE]
  IN IF NeedsSectionPicker(sections)
     THEN Prompt("pickSection", loc, lg, pend, "Select section", MapNameGid(sections))
     ELSE IF Len(sections) = 1
          THEN ReturnTaskDetails([name |-> sections[1].name, gid |-> sections[1].gid],
                                 loc, lg, pend, m)
          ELSE ReturnTaskDetails(NULL, loc, Append(lg, Notice(NoSectionsNotice)), pend, m)

\* ----------------------------------------------------------------- actions
\* mutant: the flow switches link insertion on in the shared settings
CreateAsanaTaskForcingLink ==
  /\ pc = "idle"
  /\ LET selection == GetSelection(editor)
         selectedText == IF selection # <<>> THEN selection
                         ELSE GetLine(editor, editor.line)
         loc == [local EXCEPT !.taskName = TaskNameOf(selectedText),
                              !.editor0 = editor,
                              !.settings0 = settings]
     IN IF TokenMissing(settings)
        THEN AbortWith(TokenNotice, loc, log, pending, modal)
        ELSE Goto("awaitInit", loc,
                  log \o <<fetchAsanaWorkspaces(settings), fetchAsanaUser(settings)>>,
                  pending \cup {Len(log) + 1, Len(log) + 2}, modal)
  /\ settings' = [settings EXCEPT !.enableMarkdownLink = TRUE]
  /\ UNCHANGED editor

\* createAsanaTask(editor) up to its first suspension
CreateAsanaTask ==
  /\ pc = "idle"
  /\ LET selection == GetSelection(editor)
         selectedText == IF selection # <<>> THEN selection
                         ELSE GetLine(editor, editor.line)
         loc == [local EXCEPT !.taskName = TaskNameOf(selectedText),
                              !.editor0 = editor,
                              !.settings0 = settings]
     IN IF TokenMissing(settings)
        THEN AbortWith(TokenNotice, loc, log, pending, modal)
        ELSE Goto("awaitInit", loc,
                  log \o <<fetchAsanaWorkspaces(settings), fetchAsanaUser(settings)>>,
                  pending \cup {Len(log) + 1, Len(log) + 2}, modal)
  /\ UNCHANGED <<settings, editor>>

\* mutant: the projects of the first workspace are requested while the
\* workspace picker is still open
JoinInitPrefetch(loc, lg, pend) ==
  LET m == NewModal("Select workspace", MapNameGid(loc.workspaces))
      lg1 == Append(lg, Opened("Select workspace", m.id))
  IN IF loc.workspaces = <<>>
     THEN Goto("pickWorkspace", loc, lg1, pend, m)
     ELSE Await("pickWorkspace", loc, lg1, pend,
                fetchAsanaProjects(loc.workspaces[1].gid, settings), m)

\* mutant: the first workspace is used without a picker round
JoinInitAutoSelect(loc, lg, pend) ==
  IF loc.workspaces = <<>>
  THEN Prompt("pickWorkspace", loc, lg, pend, "Select workspace", <<>>)
  ELSE Await("awaitProjects", [loc EXCEPT !.workspace = loc.workspaces[1]], lg, pend,
             fetchAsanaProjects(loc.workspaces[1].gid, settings), modal)

\* Promise.all([workspaces, userData]) has both values
JoinInit(loc, lg, pend) ==
  Prompt("pickWorkspace", loc, lg, pend, "Select workspace", MapNameGid(loc.workspaces))

\* mutant: the flow goes on as soon as one of the two has a value
AnySettled(loc) == loc.wsDone \/ loc.userDone

\* await Promise.all([...]): both promises are fulfilled
AllSettled(loc) == loc.wsDone /\ loc.userDone

RespondWorkspaces ==
  \E i \in pending, o \in Outcomes, data \in WorkspaceLists :
    /\ log[i].op = "fetchAsanaWorkspaces"
    /\ (o # "ok" => data = <<>>)
    /\ LET lg == Append(log, Response(i, o, [list |-> data]))
           pend == pending \ {i}
           loc == [local EXCEPT !.wsDone = TRUE, !.workspaces = data]
       IN IF pc # "awaitInit"
          THEN Goto(pc, local, IF o # "ok" THEN Reject(log[i].op, o, lg) ELSE lg,
                    pend, modal)
          ELSE IF o # "ok" THEN CatchFetchError(log[i].op, o, local, lg, pend, modal)
          ELSE IF AllSettled(loc) THEN JoinInit(loc, lg, pend)
          ELSE Goto(pc, loc, lg, pend, modal)
    /\ UNCHANGED <<settings, editor>>

RespondUser ==
  \E i \in pending, o \in Outcomes, gid \in UserGids :
    /\ log[i].op = "fetchAsanaUser"
    /\ LET lg == Append(log, Response(i, o, IF o = "ok" THEN [gid |-> gid] ELSE UNDEFINED))
           pend == pending \ {i}
           loc == [local EXCEPT !.userDone = TRUE, !.userGid = gid]
       IN IF pc # "awaitInit"
          THEN Goto(pc, local, IF o # "ok" THEN Reject(log[i].op, o, lg) ELSE lg,
                    pend, modal)
          ELSE IF o # "ok" THEN CatchFetchError(log[i].op, o, local, lg, pend, modal)
          ELSE IF AllSettled(loc) THEN JoinInit(loc, lg, pend)
          ELSE Goto(pc, loc, lg, pend, modal)
    /\ UNCHANGED <<settings, editor>>

\* a selection event of the picker: the host closes the modal and calls
\* onChooseItem(item); the first call of the resolve callback settles the
\* promise of promptForSelection and the flow continues.  One gesture may
\* dispatch the event more than once, before anything else happens.
OnChooseItem(item) ==
  /\ modal.id > 0
  /\ \/ modal.open
     \/ /\ modal.events # <<>>
        /\ Len(modal.events) < MaxChooseEvents
        /\ log[Len(log)].ev \in {"request", "resolve"}
  /\ LET m == ChooseItem(modal, item)
     IN IF m.resolveCalls > modal.resolveCalls
        THEN LET lg == Append(log, Resolved(m.id, item))
             IN IF modal.resolveCalls = 0
                THEN AfterSelection(item, local, lg, pending, m)
                ELSE Goto(pc, local, lg, pending, m)
        ELSE Goto(pc, local, log, pending, m)
  /\ UNCHANGED <<settings, editor>>

ChooseAny == \E item \in SeqToSet(modal.items) : OnChooseItem(item)

\* the user closes the picker without choosing (Esc, click outside):
\* Modal.close() runs onClose, which FuzzySelectModal does not override
CloseModal ==
  /\ modal.open
  /\ modal' = [modal EXCEPT !.open = FALSE]
  /\ UNCHANGED <<settings, editor, pc, local, log, pending, call, disk, tab>>

RespondProjects ==
  \E i \in pending, o \in Outcomes, data \in ProjectLists :
    /\ log[i].op = "fetchAsanaProjects"
    /\ (o # "ok" => data = <<>>)
    /\ LET lg == Append(log, Response(i, o, [list |-> data]))
           pend == pending \ {i}
           options == ProjectOptions(data, local.userGid, settings)
       IN IF o # "ok" THEN CatchFetchError(log[i].op, o, local, lg, pend, modal)
          ELSE Prompt("pickProject", [local EXCEPT !.projectOptions = options],
                      lg, pend, "Select project", options)
    /\ UNCHANGED <<settings, editor>>

RespondTaskList ==
  \E i \in pending, o \in Outcomes, gid \in TaskListGids :
    /\ log[i].op = "fetchUserTaskListGid"
    /\ LET lg == Append(log, Response(i, o, IF o = "ok" THEN [gid |-> gid] ELSE UNDEFINED))
           pend == pending \ {i}
       IN IF o # "ok" THEN CatchFetchError(log[i].op, o, local, lg, pend, modal)
          ELSE Await("awaitSections", [local EXCEPT !.taskListGid = gid], lg, pend,
                     fetchAsanaSections(gid, settings), modal)
    /\ UNCHANGED <<settings, editor>>

RespondSections ==
  \E i \in pending, o \in Outcomes, data \in SectionLists :
    /\ log[i].op = "fetchAsanaSections"
    /\ (o # "ok" => data = <<>>)
    /\ LET lg == Append(log, Response(i, o, [list |-> data]))
           pend == pending \ {i}
       IN IF o # "ok" THEN CatchFetchError(log[i].op, o, local, lg, pend, modal)
          ELSE ResolveSections(data, local, lg, pend, modal)
    /\ UNCHANGED <<settings, editor>>

\* --------------------------------------------------------- createTaskInAsana
TypeErrorMessage == "Cannot read properties of undefined (reading 'permalink_url')"

\* const token = settings.asanaToken, read once when createTaskInAsana is
\* called and used by its three requests
TokenOf(request) == [asanaToken |-> request.token]

\* mutant: the task is always moved to a section
SectionAlwaysGiven(sectionGid) == TRUE

\* "Move task to the selected section if provided"
SectionGiven(sectionGid) == sectionGid # ""

RespondCreate ==
  \E i \in pending, o \in Outcomes, gid \in TaskGids :
    /\ log[i].op = "createTask"
    /\ LET lg == Append(log, Response(i, o, IF o = "ok" THEN [gid |-> gid] ELSE UNDEFINED))
           pend == pending \ {i}
           loc == [local EXCEPT !.taskGid = gid]
           sectionGid == local.taskDetails.sectionGid
       IN IF o # "ok" THEN ThrowCreateError(log[i].op, o, local, lg, pend, modal)
          ELSE IF SectionGiven(sectionGid)
               THEN Await("awaitAddTask", loc, lg, pend,
                          addTaskRequest(sectionGid, gid, TokenOf(log[i])), modal)
               ELSE Await("awaitGetTask", loc, lg, pend,
                          getTaskRequest(gid, TokenOf(log[i])), modal)
    /\ UNCHANGED <<settings, editor>>

\* the status of the addTask response is not inspected
RespondAddTask ==
  \E i \in pending, o \in Outcomes :
    /\ log[i].op = "addTask"
    /\ LET lg == Append(log, Response(i, o, UNDEFINED))
           pend == pending \ {i}
       IN IF o = "reject"
          THEN ThrowCreateError(log[i].op, o, local, lg, pend, modal)
          ELSE Await("awaitGetTask", local, lg, pend,
                     getTaskRequest(local.taskGid, TokenOf(log[i])), modal)
    /\ UNCHANGED <<settings, editor>>

\* createAsanaTask after createTaskInAsana returned `response`
WriteBack(ed, st, response, taskDetails) ==
  LET linked == updateEditorWithTaskLink(ed, st, response.permalink_url,
                                         taskDetails.projectName,
                                         taskDetails.sectionName)
  IN IF st.markTaskAsCompleted THEN markTaskAsCompleted(linked) ELSE linked

\* the calls of editor.setLine / editor.replaceSelection made by WriteBack
WriteEvents(ed, st, response, taskDetails) ==
  LET linked == updateEditorWithTaskLink(ed, st, response.permalink_url,
                                         taskDetails.projectName,
                                         taskDetails.sectionName)
      marked == markTaskAsCompleted(linked)
  IN (IF st.enableMarkdownLink
      THEN <<Wrote("updateEditorWithTaskLink", linked.line, GetLine(linked, linked.line))>>
      ELSE <<>>)
     \o (IF st.markTaskAsCompleted
         THEN <<Wrote("markTaskAsCompleted", marked.line, GetLine(marked, marked.line))>>
         ELSE <<>>)

\* the status of the final GET is not inspected: createTaskInAsana returns
\* taskResponse.json.data, which is undefined for an error body
RespondGetTask ==
  \E i \in pending, o \in Outcomes, url \in Permalinks :
    /\ log[i].op = "getTask"
    /\ LET data == IF o = "ok"
                   THEN [gid |-> local.taskGid, permalink_url |-> url]
                   ELSE UNDEFINED
           lg == Append(log, Response(i, o, data))
           pend == pending \ {i}
           loc == [local EXCEPT !.returned = TRUE, !.result = data]
       IN IF o = "reject"
          THEN /\ ThrowCreateError(log[i].op, o, local, lg, pend, modal)
               /\ editor' = editor
          ELSE IF data = UNDEFINED
               THEN /\ CatchCreateError(TypeErrorMessage, loc, lg, pend, modal)
                    /\ editor' = editor
               ELSE /\ Goto("done", [loc EXCEPT !.editor1 = editor],
                            lg \o WriteEvents(editor, settings, data, local.taskDetails),
                            pend, modal)
                    /\ editor' = WriteBack(editor, settings, data, local.taskDetails)
    /\ UNCHANGED settings

Next ==
  \/ CreateAsanaTask
  \/ RespondWorkspaces
  \/ RespondUser
  \/ ChooseAny
  \/ CloseModal
  \/ RespondProjects
  \/ RespondTaskList
  \/ RespondSections
  \/ RespondCreate
  \/ RespondAddTask
  \/ RespondGetTask

Spec == Init /\ [][Next]_vars

\* every enabled step of the flow, of the network and of the user is
\* eventually taken
FairSpec == Spec /\ WF_vars(Next)

\* ------------------------------------------- the project option list alone
\* promptForTaskDetails builds the option list of the project picker from
\* the fetched projects, the user's gid and the settings; here it is applied
\* once to every project list of up to MaxOptionProjects distinct projects
OptionPool ==
  { [name |-> "P1", gid |-> "p1"], [name |-> "P2", gid |-> "p2"],
    [name |-> "P3", gid |-> "p3"], [name |-> "P1", gid |-> "p4"] }

RECURSIVE ListsOver(_, _)
ListsOver(S, n) ==
  IF n = 0 THEN { <<>> }
  ELSE { <<>> } \cup { <<x>> \o l : x \in S, l \in ListsOver(S, n - 1) }

IsInjective(q) == \A a, b \in DOMAIN q : q[a] = q[b] => a = b

OptionProjectLists ==
  { l \in ListsOver(OptionPool, MaxOptionProjects) : IsInjective(l) }

OptionPinned ==
  { <<>>, <<"p1">>, <<"P2">>, <<"P1">>, <<"p3", "p2">>, <<"P3", "p1">>,
    <<"My Tasks">>, <<"u1", "p2">>, <<"none">> }

OptionSettings ==
  { st \in SettingsSet : st.asanaToken = "tok" /\ st.enableMarkdownLink
                           /\ ~st.markTaskAsCompleted /\ ~st.showArchivedProjects }

InitOptions ==
  /\ \E st \in OptionSettings, pinned \in OptionPinned :
        settings = [st EXCEPT !.pinnedProjects = pinned]
  /\ editor = EditorOn(PlainLine, 1)
  /\ pc = "idle"
  /\ local = InitLocal
  /\ log = <<>>
  /\ pending = {}
  /\ modal = NoModal
  /\ disk = DiskOf(settings)
  /\ tab = NoTab
  /\ \E projects \in OptionProjectLists, userGid \in UserGids :
        call = [NoCall EXCEPT !.projects = projects, !.userGid = userGid]

BuildProjectOptions ==
  /\ ~call.done
  /\ call' = [call EXCEPT
                 !.options = ProjectOptions(call.projects, call.userGid, settings),
                 !.done = TRUE]
  /\ UNCHANGED <<settings, editor, pc, local, log, pending, modal, disk, tab>>

NextOptions == BuildProjectOptions

SpecOptions == InitOptions /\ [][NextOptions]_vars

\* ------------------------------------------- settings and the settings tab
\* mutant: the sources are applied in the wrong order, a's keys win
ObjectAssignFirstWins(a, b) ==
  IF b = NULL THEN a
  ELSE [k \in DOMAIN a \cup DOMAIN b |-> IF k \in DOMAIN a THEN a[k] ELSE b[k]]

\* Object.assign({}, a, b): the own keys of b override those of a; a null
\* source contributes nothing
ObjectAssign(a, b) ==
  IF b = NULL THEN a
  ELSE [k \in DOMAIN a \cup DOMAIN b |-> IF k \in DOMAIN b THEN b[k] ELSE a[k]]

\* what data.json may hold when the plugin starts: nothing, or any part of
\* a settings object saved earlier
SavedEarlier ==
  [asanaToken |-> "tok", markTaskAsCompleted |-> TRUE, pinnedProjects |-> <<"P1", "P2">>,
   enableMarkdownLink |-> FALSE, showArchivedProjects |-> TRUE, pinMyTasks |-> FALSE]
PersistedData ==
  {NULL} \cup { [k \in K |-> SavedEarlier[k]] : K \in SUBSET DOMAIN SavedEarlier }

\* a one-word string written as tokens, read back as the word
StrOf(tokens) == IF tokens = <<>> THEN "" ELSE tokens[1]

\* what the user can type in the token field and in the pinned-projects
\* area (one token sequence per line; '' splits into one empty line)
KeyTexts == { <<>>, <<"tok">>, <<" ", "tok2", " ">> }
PinnedTexts == { << <<>> >>, << <<"p1">> >>, << <<" ", "P2", " ">>, <<"p3">> >> }
ToggleKeys ==
  {"markTaskAsCompleted", "enableMarkdownLink", "pinMyTasks", "showArchivedProjects"}

KeySavedNotice == <<"Asana API key saved">>

\* AsanaPlugin.loadSettings, run once by onload
LoadSettings ==
  /\ settings = UNDEFINED
  /\ settings' = ObjectAssign(DEFAULT_SETTINGS, disk.data)
  /\ UNCHANGED <<editor, pc, local, log, pending, modal, call, disk, tab>>

\* mutant: the settings are saved as they were before the handler's change
SaveSettingsBefore(st, then) ==
  disk' = [disk EXCEPT !.saves = Append(disk.saves, [data |-> settings, then |-> then])]

\* AsanaPlugin.saveSettings called by a handler of the tab: saveData is
\* handed the settings as they are now and the handler waits for it; `then`
\* is what the handler does afterwards
SaveSettings(st, then) ==
  disk' = [disk EXCEPT !.saves = Append(disk.saves, [data |-> st, then |-> then])]

FormOpen == settings # UNDEFINED /\ tab.handlers < MaxFormActions

\* onChange of the token field
OnKeyText(value) ==
  /\ FormOpen
  /\ value # tab.tempKeyValue
  /\ tab' = [tab EXCEPT !.tempKeyValue = value]
  /\ UNCHANGED <<settings, editor, pc, local, log, pending, modal, call, disk>>

TypeKey == \E value \in KeyTexts : OnKeyText(value)

\* onClick of 'Save key', up to its await
SaveKey ==
  /\ FormOpen
  /\ LET st == [settings EXCEPT !.asanaToken = StrOf(Trim(tab.tempKeyValue))]
     IN /\ settings' = st
        /\ SaveSettings(st, "keySaved")
  /\ tab' = [tab EXCEPT !.handlers = tab.handlers + 1]
  /\ UNCHANGED <<editor, pc, local, log, pending, modal, call>>

\* onChange of one of the four toggles, up to its await
OnToggle(key, value) ==
  /\ FormOpen
  /\ LET st == [settings EXCEPT ![key] = value]
     IN /\ settings' = st
        /\ SaveSettings(st, "none")
  /\ tab' = [tab EXCEPT !.handlers = tab.handlers + 1]
  /\ UNCHANGED <<editor, pc, local, log, pending, modal, call>>

Toggle == \E key \in ToggleKeys : OnToggle(key, ~settings[key])

\* onChange of the pinned-projects area, up to its await:
\* value.split('\n').map((item) => item.trim())
OnPinnedText(lines) ==
  /\ FormOpen
  /\ LET st == [settings EXCEPT
                  !.pinnedProjects = [k \in DOMAIN lines |-> StrOf(Trim(lines[k]))]]
     IN /\ settings' = st
        /\ SaveSettings(st, "none")
  /\ tab' = [tab EXCEPT !.handlers = tab.handlers + 1]
  /\ UNCHANGED <<editor, pc, local, log, pending, modal, call>>

EditPinned == \E lines \in PinnedTexts : OnPinnedText(lines)

\* the oldest saveData in flight completes and its handler runs to its end
SaveDone ==
  /\ disk.saves # <<>>
  /\ LET save == Head(disk.saves)
     IN /\ disk' = [data |-> save.data, saves |-> Tail(disk.saves)]
        /\ IF save.then = "keySaved"
           THEN /\ log' = Append(log, Notice(KeySavedNotice))
                /\ tab' = [tab EXCEPT !.tempKeyValue = <<>>]
           ELSE UNCHANGED <<log, tab>>
  /\ UNCHANGED <<settings, editor, pc, local, pending, modal, call>>

InitSettings ==
  /\ settings = UNDEFINED
  /\ editor = EditorOn(PlainLine, 1)
  /\ pc = "idle"
  /\ local = InitLocal
  /\ log = <<>>
  /\ pending = {}
  /\ modal = NoModal
  /\ call = NoCall
  /\ \E data \in PersistedData : disk = [data |-> data, saves |-> <<>>]
  /\ tab = NoTab

NextSettings ==
  \/ LoadSettings
  \/ TypeKey
  \/ SaveKey
  \/ Toggle
  \/ EditPinned
  \/ SaveDone

SpecSettings == InitSettings /\ [][NextSettings]_vars

\* -------------------------------------------------- the link writer alone
\* updateEditorWithTaskLink applied once to any document, cursor line and
\* selection, with any task url, project name and section name
WriterDocs == { <<UncheckedLine, <<"other">>>>, <<PlainLine, StarLine>> }
WriterEditors ==
  { [lines |-> d, line |-> n, from |-> f, to |-> t] :
      d \in WriterDocs, n \in 1..2, f \in 1..MaxWriterColumn, t \in 1..MaxWriterColumn }
WriterArgs ==
  [taskUrl : Permalinks \cup {""}, projectName : {"P1", ""}, sectionName : {"S1", ""}]

InitWriter ==
  /\ settings \in { st \in SettingsSet : st.asanaToken = "tok" /\ st.pinnedProjects = <<>>
                                         /\ ~st.showArchivedProjects /\ st.pinMyTasks }
  /\ editor \in { ed \in WriterEditors : ed.from <= ed.to
                                         /\ ed.to <= Len(ed.lines[ed.line]) + 1 }
  /\ pc = "idle"
  /\ local = InitLocal
  /\ log = <<>>
  /\ pending = {}
  /\ modal = NoModal
  /\ \E args \in WriterArgs : call = [args |-> args, before |-> editor, done |-> FALSE]
  /\ disk = DiskOf(settings)
  /\ tab = NoTab

WriteLink ==
  /\ ~call.done
  /\ editor' = updateEditorWithTaskLink(editor, settings, call.args.taskUrl,
                                        call.args.projectName, call.args.sectionName)
  /\ call' = [call EXCEPT !.done = TRUE]
  /\ UNCHANGED <<settings, pc, local, log, pending, modal, disk, tab>>

NextWriter == WriteLink

SpecWriter == InitWriter /\ [][NextWriter]_vars

\* ------------------------------------- the flow with the settings tab open
\* one invocation of createAsanaTask while the user works in the settings
\* tab: the handlers of the tab run whenever the flow is suspended
FlowSettings ==
  [asanaToken |-> "tok", markTaskAsCompleted |-> TRUE, pinnedProjects |-> <<"p1">>,
   enableMarkdownLink |-> TRUE, showArchivedProjects |-> FALSE, pinMyTasks |-> TRUE]

InitForm ==
  /\ settings = FlowSettings
  /\ editor = EditorOn(UncheckedLine, Len(UncheckedLine) + 1)
  /\ pc = "idle"
  /\ local = InitLocal
  /\ log = <<>>
  /\ pending = {}
  /\ modal = NoModal
  /\ call = NoCall
  /\ disk = DiskOf(settings)
  /\ tab = NoTab

\* the invocation is suspended at a network call (an open picker is a modal
\* dialog and keeps the user from the rest of the application)
Suspended ==
  pc \in {"awaitInit", "awaitProjects", "awaitTaskList", "awaitSections",
          "awaitCreate", "awaitAddTask", "awaitGetTask"}
\* the user acts in the settings tab meanwhile
LiveFormOpen == Suspended /\ tab.handlers < MaxLiveChanges

NextForm ==
  \/ Next
  \/ LiveFormOpen /\ TypeKey
  \/ LiveFormOpen /\ SaveKey
  \/ LiveFormOpen /\ Toggle
  \/ LiveFormOpen /\ EditPinned
  \/ SaveDone

SpecForm == InitForm /\ [][NextForm]_vars

\* ------------------------------------------ the flow with the user editing
\* one invocation of createAsanaTask while the user goes on working in the
\* editor: between the start and the write-back the cursor may move, the
\* selection may change and text may be typed
MoveCursor(n) ==
  /\ n # editor.line
  /\ editor' = [editor EXCEPT !.line = n, !.from = 1, !.to = 1]

ChangeSelection(f, t) ==
  /\ <<f, t>> # <<editor.from, editor.to>>
  /\ editor' = [editor EXCEPT !.from = f, !.to = t]

\* the user types a word at the end of the cursor line
TypeText ==
  LET l == editor.lines[editor.line] \o <<" ", "now">>
  IN editor' = [editor EXCEPT !.lines[editor.line] = l,
                              !.from = Len(l) + 1, !.to = Len(l) + 1]

LiveEditorOpen == Suspended /\ tab.edits < MaxLiveChanges

UserEdits(step) ==
  /\ LiveEditorOpen
  /\ step
  /\ tab' = [tab EXCEPT !.edits = tab.edits + 1]
  /\ UNCHANGED <<settings, pc, local, log, pending, modal, call, disk>>

InitEdit ==
  /\ settings = FlowSettings
  /\ editor \in {EditorOn(UncheckedLine, Len(UncheckedLine) + 1), EditorOn(PlainLine, 1)}
  /\ pc = "idle"
  /\ local = InitLocal
  /\ log = <<>>
  /\ pending = {}
  /\ modal = NoModal
  /\ call = NoCall
  /\ disk = DiskOf(settings)
  /\ tab = NoTab

NextEdit ==
  \/ Next
  \/ \E n \in 1..2 : UserEdits(MoveCursor(n))
  \/ \E f \in 1..2, t \in 1..2 : f <= t /\ UserEdits(ChangeSelection(f, t))
  \/ UserEdits(TypeText)

SpecEdit == InitEdit /\ [][NextEdit]_vars

\* ------------------------------------------------------- reading the log
RequestsAt == { i \in DOMAIN log : log[i].ev = "request" }
RequestsOf(op) == { i \in RequestsAt : log[i].op = op }
NoticesAt == { i \in DOMAIN log : log[i].ev = "notice" }
OkResponsesOf(op) ==
  { j \in DOMAIN log : /\ log[j].ev = "response"
                       /\ log[j].outcome = "ok"
                       /\ log[log[j].req].op = op }
OpenedAt(title) == { k \in DOMAIN log : log[k].ev = "open" /\ log[k].title = title }
\* the calls of the resolve callback of the pickers titled `title`
ResolvedAt(title) ==
  { j \in DOMAIN log : /\ log[j].ev = "resolve"
                       /\ \E k \in OpenedAt(title) : k < j /\ log[k].id = log[j].id }
ResolveCallsOf(id) == { j \in DOMAIN log : log[j].ev = "resolve" /\ log[j].id = id }

BodyKeys(body) == DOMAIN body

IsErrorNotice(text) ==
  Len(text) = 2 /\ text[1] \in {"Error fetching Asana data: ", "Error creating Asana task: "}

\* the picker was closed and no item was ever chosen in it
ClosedWithoutChoice == modal.id > 0 /\ ~modal.open /\ modal.events = <<>>

\* ------------------------------------------------------------------ claims

\* C1: when createAsanaTask runs with an empty settings.asanaToken, the flow
\* ends with the token notice as its only effect: no request is issued, no
\* picker is opened and the document is as it was.
C1_NoTokenAborts ==
  (pc # "idle" /\ settings.asanaToken = "")
    => /\ pc = "done"
       /\ log = << Notice(TokenNotice) >>
       /\ RequestsAt = {}
       /\ pending = {}
       /\ modal = NoModal
       /\ editor = local.editor0

C1_Witness == pc = "done" /\ settings.asanaToken = "" /\ Len(log) = 1

\* C2: for one FuzzySelectModal instance the resolve callback is called at
\* most once however many onChooseItem events are dispatched; the value
\* delivered and kept is the item of the first event, and a later event
\* changes nothing but the count of dispatched events.
C2_StateOk ==
  /\ modal.resolveCalls <= 1
  /\ Cardinality(ResolveCallsOf(modal.id)) = modal.resolveCalls
  /\ modal.events # <<>> =>
       /\ modal.resolved
       /\ modal.resolveCalls = 1
       /\ modal.selectedItem = modal.events[1]
       /\ \A j \in ResolveCallsOf(modal.id) : log[j].value = modal.events[1]

C2_LaterEventIgnored ==
  (modal.resolved /\ modal'.id = modal.id /\ modal'.events # modal.events)
    => /\ modal' = [modal EXCEPT !.events = modal'.events]
       /\ UNCHANGED <<settings, editor, pc, local, log, pending>>

C2_ResolveAtMostOnce == [](C2_StateOk) /\ [][C2_LaterEventIgnored]_vars

C2_Witness ==
  /\ Len(modal.events) >= 2
  /\ modal.events[2] # modal.events[1]
  /\ modal.selectedItem = modal.events[1]

\* C3 (as claimed): once a picker has been closed without any item chosen,
\* the promise of promptForSelection is eventually resolved with null.
C3_ResolvedWithNull ==
  \E j \in ResolveCallsOf(modal.id) : log[j].value = NULL

C3_CancelResolvesNull == ClosedWithoutChoice ~> C3_ResolvedWithNull

\* C4: the stages run in the order AuthCheck, WorkspaceSelect, ProjectSelect,
\* SectionResolve, Create, each after the previous one succeeded: requests
\* are issued only with a token; projects are requested only after both
\* initial fetches succeeded and a workspace was chosen, and for that
\* workspace; sections (or the task list) only after the projects arrived
\* and a project was chosen; the POST only after the sections arrived and,
\* where a section picker is needed, a section was chosen.
C4_StageOrder ==
  \A i \in RequestsAt :
    /\ settings.asanaToken # ""
    /\ log[i].op = "fetchAsanaProjects" =>
         \E j \in ResolvedAt("Select workspace") :
           /\ j < i
           /\ log[j].value # NULL
           /\ log[i].url[2] = log[j].value.gid
           /\ \E a \in OkResponsesOf("fetchAsanaWorkspaces") : a < j
           /\ \E b \in OkResponsesOf("fetchAsanaUser") : b < j
    /\ log[i].op \in {"fetchAsanaSections", "fetchUserTaskListGid"} =>
         \E j \in ResolvedAt("Select project") :
           /\ j < i
           /\ log[j].value # NULL
           /\ \E k \in OkResponsesOf("fetchAsanaProjects") : k < j
    /\ log[i].op = "createTask" =>
         \E k \in OkResponsesOf("fetchAsanaSections") :
           /\ k < i
           /\ Len(log[k].data.list) > 1 =>
                \E j \in ResolvedAt("Select section") : k < j /\ j < i
    /\ log[i].op \in {"addTask", "getTask"} =>
         \E k \in OkResponsesOf("createTask") : k < i

C4_Witness ==
  /\ RequestsOf("createTask") # {}
  /\ ResolvedAt("Select section") # {}

\* C5: the body of POST /tasks always carries name and workspace; for an
\* empty projectGid it has no projects field and assignee "me"; for a
\* non-empty projectGid it has projects = [projectGid] and no assignee.
C5_CreateBody ==
  \A i \in RequestsOf("createTask") :
    LET body == log[i].body
        d == local.taskDetails
    IN /\ log[i].method = "POST"
       /\ log[i].url = <<"/tasks">>
       /\ {"name", "workspace"} \subseteq BodyKeys(body)
       /\ body["name"] = local.taskName
       /\ body["workspace"] = d.workspaceGid
       /\ IF d.projectGid = ""
          THEN /\ BodyKeys(body) = {"name", "workspace", "assignee"}
               /\ body["assignee"] = "me"
          ELSE /\ BodyKeys(body) = {"name", "workspace", "projects"}
               /\ body["projects"] = << d.projectGid >>

C5_Witness ==
  \E i \in RequestsOf("createTask") :
    /\ "projects" \in BodyKeys(log[i].body)
    /\ local.taskDetails.projectGid # ""

\* C6: createTaskInAsana issues POST /tasks, then POST
\* /sections/{sectionGid}/addTask with the returned gid if and only if
\* sectionGid is non-empty, then GET /tasks/{gid}, each after the response
\* to the one before; a call that returns has made exactly 3 requests with
\* a section and 2 without, and returns the data of the final GET.
CreateOps == {"createTask", "addTask", "getTask"}
CreateRequestsAt == { i \in RequestsAt : log[i].op \in CreateOps }
ExpectedCreateOps(sectionGid) ==
  IF sectionGid # "" THEN <<"createTask", "addTask", "getTask">>
  ELSE <<"createTask", "getTask">>
IsPrefix(a, b) == Len(a) <= Len(b) /\ a = SubSeq(b, 1, Len(a))
ResponsesTo(i) == { j \in DOMAIN log : log[j].ev = "response" /\ log[j].req = i }

C6_CreateSequence ==
  LET reqs == SelectSeq(log, LAMBDA e : e.ev = "request" /\ e.op \in CreateOps)
      ops == [k \in DOMAIN reqs |-> reqs[k].op]
      d == local.taskDetails
  IN reqs # <<>> =>
       /\ IsPrefix(ops, ExpectedCreateOps(d.sectionGid))
       /\ \A a, b \in CreateRequestsAt : a < b => \E j \in ResponsesTo(a) : j < b
       /\ \A i \in RequestsOf("addTask") :
            /\ log[i].method = "POST"
            /\ log[i].url = <<"/sections/", d.sectionGid, "/addTask">>
            /\ \E k \in OkResponsesOf("createTask") :
                 log[i].body = [task |-> log[k].data.gid]
       /\ \A i \in RequestsOf("getTask") :
            /\ log[i].method = "GET"
            /\ \E k \in OkResponsesOf("createTask") :
                 log[i].url = <<"/tasks/", log[k].data.gid>>
       /\ local.returned =>
            /\ ops = ExpectedCreateOps(d.sectionGid)
            /\ Len(reqs) = IF d.sectionGid # "" THEN 3 ELSE 2
            /\ \E i \in RequestsOf("getTask"), j \in DOMAIN log :
                 j \in ResponsesTo(i) /\ local.result = log[j].data

C6_Witness ==
  /\ local.returned
  /\ local.result # UNDEFINED
  /\ local.taskDetails.sectionGid # ""
  /\ Cardinality(CreateRequestsAt) = 3

\* C7: section resolution goes by the number of sections fetched: with none
\* the task is created with an empty sectionGid and no section picker; with
\* one, that section's gid is used and no section picker opens; with two or
\* more exactly one section picker opens and the section chosen in it is
\* the one used.
C7_SectionResolution ==
  LET n == Len(local.sections)
      pickers == OpenedAt("Select section")
      d == local.taskDetails
  IN IF ~local.sectionsFetched
     THEN pickers = {} /\ d = NULL
     ELSE /\ n = 0 => /\ pickers = {}
                      /\ d # NULL
                      /\ d.sectionGid = ""
                      /\ RequestsOf("createTask") # {}
          /\ n = 1 => /\ pickers = {}
                      /\ d # NULL
                      /\ d.sectionGid = local.sections[1].gid
                      /\ RequestsOf("createTask") # {}
          /\ n >= 2 => /\ Cardinality(pickers) = 1
                       /\ d = NULL => RequestsOf("createTask") = {}
                       /\ d # NULL =>
                            \E j \in ResolvedAt("Select section") :
                              /\ log[j].value \in SeqToSet(MapNameGid(local.sections))
                              /\ d.sectionGid = log[j].value.gid

C7_Witness ==
  /\ local.sectionsFetched
  /\ Len(local.sections) >= 2
  /\ local.taskDetails # NULL
  /\ RequestsOf("createTask") # {}

\* C8: when the My Tasks option is selected, sections are fetched for the gid
\* returned by fetchUserTaskListGid for the chosen workspace, never for the
\* option's own gid (the user's gid), and the POST carries no projects and
\* assignee "me".
C8_MyTasks ==
  IsMyTasks(local.project) =>
    /\ local.project.gid = local.userGid
    /\ \A i \in RequestsOf("fetchUserTaskListGid") :
         log[i].url = <<"/users/me/user_task_list?workspace=", local.workspace.gid>>
    /\ \A i \in RequestsOf("fetchAsanaSections") :
         /\ log[i].url[2] # local.project.gid
         /\ \E k \in OkResponsesOf("fetchUserTaskListGid") :
              /\ k < i
              /\ log[i].url = <<"/projects/", log[k].data.gid, "/sections">>
    /\ \A i \in RequestsOf("createTask") :
         /\ "projects" \notin BodyKeys(log[i].body)
         /\ "assignee" \in BodyKeys(log[i].body)
         /\ log[i].body["assignee"] = "me"

C8_Witness ==
  /\ IsMyTasks(local.project)
  /\ RequestsOf("fetchAsanaSections") # {}
  /\ RequestsOf("createTask") # {}

\* C9: once the workspace picker has been closed without a choice, the only
\* requests of the invocation are the initial workspace and user fetches (no
\* project, section, task-list or task request), the document is as it was,
\* and nothing is issued or written afterwards.
WorkspaceCanceled == modal.title = "Select workspace" /\ ClosedWithoutChoice

C9_StateOk ==
  WorkspaceCanceled =>
    /\ \A i \in RequestsAt : log[i].op \in {"fetchAsanaWorkspaces", "fetchAsanaUser"}
    /\ Cardinality(RequestsOf("fetchAsanaWorkspaces")) = 1
    /\ pending = {}
    /\ editor = local.editor0

C9_NothingAfter == WorkspaceCanceled => UNCHANGED <<log, pending, editor>>

C9_WorkspaceCancel == [](C9_StateOk) /\ [][C9_NothingAfter]_vars

C9_Witness == WorkspaceCanceled /\ Len(modal.items) = 2

FailedResponsesAt ==
  { j \in DOMAIN log : log[j].ev = "response" /\ log[j].outcome # "ok" }
FailedResponsesOf(ops) ==
  { j \in FailedResponsesAt : log[log[j].req].op \in ops }

\* C11: if one of createTaskInAsana's requests fails (the task-creating
\* POST, the addTask POST issued after the task exists remotely, or the
\* final GET), the document is as it was when the flow started, the flow
\* ends with an error notice shown after the failure, and no request removes
\* the created task.
C11_CreateFailureLeavesDocument ==
  \A j \in FailedResponsesOf(CreateOps) :
    /\ editor = local.editor0
    /\ pc = "done" =>
         \E k \in NoticesAt : k > j /\ IsErrorNotice(log[k].text)
    /\ \A i \in RequestsAt : log[i].method # "DELETE"

\* C12: for every request of every operation of the remote client (the
\* workspace, project, section, user and task-list fetches and the create,
\* addTask and re-fetch requests of createTaskInAsana), a response with a
\* non-2xx status or a rejected request makes the operation reject, at
\* once, with the error that names the operation, and createTaskInAsana
\* returns no result in that case.
C12_FailureFailsOperation ==
  \A j \in FailedResponsesAt :
    LET op == log[log[j].req].op
    IN /\ j < Len(log)
       /\ log[j + 1] = Thrown(OperationOf(op), FailMessage(op))
       /\ op \in CreateOps => ~local.returned

AllOps ==
  {"fetchAsanaWorkspaces", "fetchAsanaUser", "fetchAsanaProjects",
   "fetchUserTaskListGid", "fetchAsanaSections"} \cup CreateOps

\* C13: nothing is retried: within the invocation each request is issued at
\* most once (no two requests of the same kind, no two equal requests), at
\* most one request is the task-creating POST /tasks, and no request is
\* issued after the first response that reports a failure.
C13_NoRetry ==
  /\ \A op \in AllOps : Cardinality(RequestsOf(op)) <= 1
  /\ \A a, b \in RequestsAt : log[a] = log[b] => a = b
  /\ Cardinality({ i \in RequestsAt : log[i].method = "POST"
                                       /\ log[i].url = <<"/tasks">> }) <= 1
  /\ \A j \in FailedResponsesAt : \A i \in RequestsAt : i < j

FetchOps == AllOps \ CreateOps
ErrorNoticesAt == { k \in NoticesAt : IsErrorNotice(log[k].text) }
\* the failed responses the flow was still waiting for
AwaitedFailuresAt ==
  { j \in FailedResponsesAt : \A k \in ErrorNoticesAt : k > j }
ErrorNoticeOf(op, message) ==
  Notice(IF op \in CreateOps THEN CreateErrorNotice(message)
         ELSE FetchErrorNotice(message))

ThrownAt == { k \in DOMAIN log : log[k].ev = "throw" }

\* C15: whatever made its request fail (a non-2xx status or a rejected
\* request), fetchAsanaWorkspaces rejects with the message 'Failed to
\* retrieve workspaces from Asana' and createTaskInAsana with 'Failed to
\* create task in Asana'; no rejection of either carries another message.
C15_FixedRejection ==
  /\ \A k \in ThrownAt :
       /\ log[k].op = "fetchAsanaWorkspaces" =>
            log[k].message = "Failed to retrieve workspaces from Asana"
       /\ log[k].op = "createTaskInAsana" =>
            log[k].message = "Failed to create task in Asana"
  /\ \A j \in FailedResponsesOf({"fetchAsanaWorkspaces"}) :
       /\ Len(log) > j
       /\ log[j + 1] = Thrown("fetchAsanaWorkspaces",
                              "Failed to retrieve workspaces from Asana")
  /\ \A j \in FailedResponsesOf({"createTask"}) :
       /\ Len(log) > j
       /\ log[j + 1] = Thrown("createTaskInAsana", "Failed to create task in Asana")

C15_Witness ==
  /\ \E j \in FailedResponsesOf({"getTask"}) : log[j].outcome = "reject"
  /\ \E k \in ThrownAt : log[k].op = "createTaskInAsana"

InitOps == {"fetchAsanaWorkspaces", "fetchAsanaUser"}
OpenedAny == { k \in DOMAIN log : log[k].ev = "open" }

\* C16: the workspace-list request and the current-user request are issued
\* together, before either is answered, and they are the only two requests
\* ever in flight at the same time; the workspace picker opens only after
\* both were answered successfully; and once either has failed, whichever
\* is answered first, the flow has ended with exactly one notice, an error
\* notice, and no picker is ever opened.
C16_InitialPair ==
  /\ RequestsAt # {} =>
       /\ Len(log) >= 2
       /\ {log[1].ev, log[2].ev} = {"request"}
       /\ {log[1].op, log[2].op} = InitOps
  /\ \A a, b \in pending : a # b => {log[a].op, log[b].op} = InitOps
  /\ \A k \in OpenedAt("Select workspace") :
       \A op \in InitOps : \E j \in OkResponsesOf(op) : j < k
  /\ FailedResponsesOf(InitOps) # {} =>
       /\ pc = "done"
       /\ OpenedAny = {}
       /\ Cardinality(NoticesAt) = 1
       /\ NoticesAt = ErrorNoticesAt
       /\ RequestsAt = {1, 2}

C16_Witness ==
  \E j1 \in FailedResponsesOf({"fetchAsanaWorkspaces"}),
     j2 \in FailedResponsesOf({"fetchAsanaUser"}) :
    j2 < j1 /\ Cardinality(NoticesAt) = 1

\* reading the option list built from call.projects
InPinnedSet(e) ==
  e.gid \in SeqToSet(settings.pinnedProjects)
    \/ e.name \in SeqToSet(settings.pinnedProjects)
ProjectEntriesAt == { k \in DOMAIN call.options : ~IsMyTasks(call.options[k]) }
MyTasksEntriesAt == { k \in DOMAIN call.options : IsMyTasks(call.options[k]) }
InputIndex(gid) == CHOOSE i \in DOMAIN call.projects : call.projects[i].gid = gid

\* C17: in the option list handed to the project picker, every entry of the
\* fetched list whose gid or name is in the pinned set stands before every
\* entry of the fetched list that is not pinned, and two entries of the same
\* group stand in the order they had in the fetched list.
C17_PinnedFirst ==
  call.done =>
    \A a, b \in ProjectEntriesAt :
      LET ea == call.options[a]
          eb == call.options[b]
      IN /\ (InPinnedSet(ea) /\ ~InPinnedSet(eb)) => a < b
         /\ (InPinnedSet(ea) <=> InPinnedSet(eb)) =>
              (a < b <=> InputIndex(ea.gid) < InputIndex(eb.gid))

\* a project pinned by its name only was fetched after a project that is
\* not pinned
C17_Witness ==
  /\ call.done
  /\ \E i, j \in DOMAIN call.projects :
       /\ i < j
       /\ ~InPinnedSet(call.projects[i])
       /\ InPinnedSet(call.projects[j])
       /\ call.projects[j].gid \notin SeqToSet(settings.pinnedProjects)

\* C18: the project option list holds exactly one synthetic My Tasks option
\* (name 'My Tasks', the user's gid); with pinMyTasks set it is the first
\* option and is marked pinned; otherwise it stands immediately after the
\* last pinned project and before every project that is not pinned.
C18_MyTasksOption ==
  call.done =>
    /\ Cardinality(MyTasksEntriesAt) = 1
    /\ \A k \in MyTasksEntriesAt :
         LET e == call.options[k]
             pinnedAt == { a \in ProjectEntriesAt : InPinnedSet(call.options[a]) }
         IN /\ e.name = "My Tasks"
            /\ e.gid = call.userGid
            /\ settings.pinMyTasks => k = 1 /\ e.isPinned
            /\ ~settings.pinMyTasks =>
                 /\ k = Cardinality(pinnedAt) + 1
                 /\ \A a \in pinnedAt : a < k
                 /\ \A a \in ProjectEntriesAt \ pinnedAt : k < a

C18_Witness ==
  /\ call.done
  /\ ~settings.pinMyTasks
  /\ \E a, b \in ProjectEntriesAt :
       InPinnedSet(call.options[a]) /\ ~InPinnedSet(call.options[b])

\* the item the user chose in the picker titled `title`
PickedIn(title) == log[Min(ResolvedAt(title))].value
WritesAt == { k \in DOMAIN log : log[k].ev = "write" }
WritesBy(by) == { k \in WritesAt : log[k].by = by }

\* a fully successful flow started with no selection, in which the user
\* picked a workspace and a regular project that has exactly one section
OneSectionSuccess ==
  /\ pc = "done"
  /\ local.returned
  /\ local.result # UNDEFINED
  /\ local.editor0.from = local.editor0.to
  /\ ResolvedAt("Select workspace") # {}
  /\ ResolvedAt("Select project") # {}
  /\ ~IsMyTasks(PickedIn("Select project"))
  /\ \E j \in OkResponsesOf("fetchAsanaSections") : Len(log[j].data.list) = 1

\* the effects of such a flow, in order: the POST /tasks for the stripped
\* line, the addTask for the one section, the link written if `linked`, the
\* checkbox rewritten if mark-complete is enabled
EffectsInOrder(linked) ==
  LET W == PickedIn("Select workspace")
      P == PickedIn("Select project")
      S == log[CHOOSE j \in OkResponsesOf("fetchAsanaSections") : TRUE].data.list[1]
      line0 == local.editor0.lines[local.editor0.line]
      link == <<" ", "[asana#", P.name, "/", S.name, "](",
                local.result.permalink_url, ")">>
      line1 == IF linked THEN line0 \o link ELSE line0
      line2 == IF settings.markTaskAsCompleted /\ SubSeq(line0, 1, 5) = Unchecked
               THEN Checked \o SubSeq(line1, 6, Len(line1))
               ELSE line1
  IN /\ \E i1 \in RequestsOf("createTask"), i2 \in RequestsOf("addTask") :
          /\ i1 < i2
          /\ \A k \in WritesAt : i2 < k
          /\ log[i1].body["name"] = TaskNameOf(line0)
          /\ line0 = UncheckedLine => log[i1].body["name"] = <<"buy milk">>
          /\ log[i1].body["workspace"] = W.gid
          /\ log[i1].body["projects"] = <<P.gid>>
          /\ log[i2].url = <<"/sections/", S.gid, "/addTask">>
     /\ IF linked
        THEN \E k \in WritesAt :
               /\ WritesBy("updateEditorWithTaskLink") = {k}
               /\ log[k].text = line1
               /\ \A m \in WritesBy("markTaskAsCompleted") : k < m
        ELSE WritesBy("updateEditorWithTaskLink") = {}
     /\ IF settings.markTaskAsCompleted
        THEN \E m \in WritesAt :
               /\ WritesBy("markTaskAsCompleted") = {m}
               /\ log[m].text = line2
        ELSE WritesBy("markTaskAsCompleted") = {}
     /\ editor.lines[editor.line] = line2
     /\ editor.lines[2] = local.editor0.lines[2]

\* C19 as stated: on such a flow the effects occur in order and the link
\* ' [asana#P/S](permalink)' is appended to the line.
C19_EndToEnd == OneSectionSuccess => EffectsInOrder(TRUE)

\* C19, amended: on such a flow the effects occur in order, and the link
\* ' [asana#P/S](permalink)' is appended to the line if and only if link
\* insertion (enableMarkdownLink) is enabled.
C19_EndToEndIfLinking == OneSectionSuccess => EffectsInOrder(settings.enableMarkdownLink)

C19_Witness ==
  /\ OneSectionSuccess
  /\ local.editor0.lines[1] = UncheckedLine
  /\ settings.enableMarkdownLink
  /\ settings.markTaskAsCompleted
  /\ editor.lines[1] = <<"-", " ", "[", "x", "]", " ", "buy milk", " ",
                         "[asana#", "P1", "/", "S1", "](", "url1", ")">>

\* the line is a list item ('-' or '*', any indentation and spacing the
\* name extraction accepts) whose checkbox holds `mark`
IsCheckboxItem(line, mark) ==
  LET s == SkipSpaces(line)
      a == SkipMarker(s)
  IN /\ s # <<>>
     /\ Head(s) \in {"-", "*"}
     /\ Len(a) >= 3
     /\ a[1] = "[" /\ a[2] = mark /\ a[3] = "]"

FlowSucceeded == pc = "done" /\ local.returned /\ local.result # UNDEFINED

\* C20: when the flow has succeeded with mark-complete enabled and the task
\* name was taken from a line that is an unchecked checkbox item (marker
\* '-' or '*', any indentation or spacing accepted by the name extraction),
\* that line's checkbox is checked; when mark-complete is disabled or the
\* flow has not succeeded, the checkbox of the line is as it was.
C20_MarkedComplete ==
  pc # "idle" =>
    LET line0 == local.editor0.lines[local.editor0.line]
        line == editor.lines[local.editor0.line]
    IN IF FlowSucceeded /\ settings.markTaskAsCompleted
       THEN IsCheckboxItem(line0, " ") => IsCheckboxItem(line, "x")
       ELSE \A mark \in {" ", "x", "X"} :
              IsCheckboxItem(line0, mark) <=> IsCheckboxItem(line, mark)

\* the settings have been loaded and no handler of the tab has run yet
JustLoaded == settings # UNDEFINED /\ tab.handlers = 0
PersistedKeys == IF disk.data = NULL THEN {} ELSE DOMAIN disk.data

\* C22: after loadSettings every key present in the persisted data has the
\* persisted value and every other key has its default: asanaToken '',
\* markTaskAsCompleted false, pinnedProjects [], enableMarkdownLink true,
\* showArchivedProjects false, pinMyTasks true; with nothing persisted the
\* settings are exactly these six defaults.
C22_LoadedSettings ==
  JustLoaded =>
    LET defaults == [asanaToken |-> "", markTaskAsCompleted |-> FALSE,
                     pinnedProjects |-> <<>>, enableMarkdownLink |-> TRUE,
                     showArchivedProjects |-> FALSE, pinMyTasks |-> TRUE]
    IN /\ DOMAIN settings = DOMAIN defaults \cup PersistedKeys
       /\ \A k \in PersistedKeys : settings[k] = disk.data[k]
       /\ \A k \in DOMAIN defaults \ PersistedKeys : settings[k] = defaults[k]
       /\ PersistedKeys = {} => settings = defaults

C22_Witness ==
  /\ JustLoaded
  /\ PersistedKeys = {"asanaToken", "pinMyTasks"}
  /\ settings.asanaToken = "tok"
  /\ settings.enableMarkdownLink

\* C23: once every handler of the settings tab that was started (save key,
\* a toggle, an edit of the pinned-projects text) has completed, the
\* persisted settings equal the settings in memory; and after loading, the
\* settings in memory change only in a step of one of those handlers.
C23_PersistedOnChange ==
  /\ [](tab.handlers > 0 /\ disk.saves = <<>> => disk.data = settings)
  /\ [][settings # UNDEFINED /\ settings' # settings
          => tab'.handlers = tab.handlers + 1]_vars

C23_Witness ==
  /\ tab.handlers = 2
  /\ disk.saves = <<>>
  /\ settings.asanaToken = "tok2"
  /\ settings.pinnedProjects = <<"P2", "p3">>
  /\ disk.data = settings

\* C21: when enableMarkdownLink is off, updateEditorWithTaskLink changes
\* nothing: every line of the document, the cursor line and the selection
\* are as before the call, whatever the task url, project name and section
\* name.
C21_WriterNoOp ==
  (call.done /\ ~settings.enableMarkdownLink) => editor = call.before

C21_Witness ==
  /\ call.done
  /\ ~settings.enableMarkdownLink
  /\ editor.from < editor.to
  /\ call.args.projectName = "P1"

\* C24: no request is issued while settings.asanaToken is empty: no step
\* taken with an empty token adds a request to the log, also when the token
\* was cleared in the settings tab while the flow was suspended.
C24_NoRequestWithoutToken ==
  [][settings # UNDEFINED /\ settings.asanaToken = ""
       => \A i \in DOMAIN log' : i > Len(log) => log'[i].ev # "request"]_vars

\* C25: the flow never changes the settings: from its start on, on every
\* path (no token, cancelled picker, fetch error, create error, success),
\* the settings in memory are those the flow started with, the persisted
\* settings are unchanged and no saveData call is in flight or was made.
C25_FlowKeepsSettings ==
  pc # "idle" =>
    /\ settings = local.settings0
    /\ disk.data = local.settings0
    /\ disk.saves = <<>>
    /\ tab = NoTab

C25_Witness ==
  /\ FlowSucceeded
  /\ settings = local.settings0
  /\ disk.data = settings
  /\ WritesAt # {}

\* C26: the settings that govern an invocation are those it started with:
\* every request carries the token of the start, the projects request
\* follows the showArchivedProjects of the start, the project options are
\* built from the pinnedProjects and pinMyTasks of the start, and the
\* document is written according to the enableMarkdownLink and
\* markTaskAsCompleted of the start, whatever the settings tab changed while
\* the invocation was suspended.
C26_SettingsReadAtStart ==
  pc # "idle" =>
    LET s0 == local.settings0
    IN /\ \A i \in RequestsAt : log[i].token = s0.asanaToken
       /\ \A i \in RequestsOf("fetchAsanaProjects") :
            \E w \in SeqToSet(WorkspacePool) :
              log[i] = fetchAsanaProjects(w.gid, s0)
       /\ \A j \in OkResponsesOf("fetchAsanaProjects") :
            local.projectOptions = ProjectOptions(log[j].data.list, local.userGid, s0)
       /\ FlowSucceeded =>
            editor = WriteBack(local.editor0, s0, local.result, local.taskDetails)

\* C27: on a successful flow that writes to the document, the line written
\* is the line the task name was read from at the start and, when the name
\* was read from a selection, the selection written after is that same
\* selection, whatever the user did in the editor while the flow was
\* suspended.
C27_WritesToOrigin ==
  (FlowSucceeded /\ WritesAt # {}) =>
    /\ \A k \in WritesAt : log[k].line = local.editor0.line
    /\ local.editor1.line = local.editor0.line
    /\ local.editor0.from < local.editor0.to =>
         /\ local.editor1.from = local.editor0.from
         /\ local.editor1.to = local.editor0.to


\* the entries of the option list that stand for the fetched project p
EntriesOf(p) ==
  { k \in ProjectEntriesAt :
      call.options[k].name = p.name /\ call.options[k].gid = p.gid }

\* every fetched project stands in the option list exactly once, every
\* entry that is not My Tasks is a fetched project, and My Tasks stands in
\* it once
OptionsComplete ==
  /\ \A i \in DOMAIN call.projects :
       Cardinality(EntriesOf(call.projects[i])) = 1
  /\ Cardinality(ProjectEntriesAt) = Len(call.projects)
  /\ Cardinality(MyTasksEntriesAt) = 1
  /\ Len(call.options) = Len(call.projects) + 1

\* C28 as stated: the option list holds every fetched project exactly once
\* plus the one My Tasks option, and the isPinned flag of every option,
\* My Tasks included, is true exactly when its gid or name is in the pinned
\* set.
C28_FlagIsMembership ==
  call.done =>
    /\ OptionsComplete
    /\ \A k \in DOMAIN call.options :
         call.options[k].isPinned <=> InPinnedSet(call.options[k])

\* C28: the option list holds every fetched project exactly once plus the
\* one My Tasks option; the isPinned flag of a fetched project's option is
\* true exactly when its gid or name is in the pinned set, and the flag of
\* the My Tasks option is the pinMyTasks setting.
C28_FlagOfProjects ==
  call.done =>
    /\ OptionsComplete
    /\ \A k \in ProjectEntriesAt :
         call.options[k].isPinned <=> InPinnedSet(call.options[k])
    /\ \A k \in MyTasksEntriesAt :
         call.options[k].isPinned <=> settings.pinMyTasks

\* three fetched projects, one pinned by its gid, one by its name only and
\* one not pinned, with My Tasks pinned by the setting and absent from the
\* pinned set
C28_Witness ==
  /\ call.done
  /\ settings.pinMyTasks
  /\ Len(call.projects) = 3
  /\ \A k \in MyTasksEntriesAt : ~InPinnedSet(call.options[k])
  /\ \E a, b, c \in ProjectEntriesAt :
       /\ call.options[a].gid \in SeqToSet(settings.pinnedProjects)
       /\ call.options[b].gid \notin SeqToSet(settings.pinnedProjects)
       /\ call.options[b].name \in SeqToSet(settings.pinnedProjects)
       /\ ~InPinnedSet(call.options[c])


\* the four ways an invocation of createAsanaTask may end
TokenMissingOutcome == \E k \in NoticesAt : log[k].text = TokenNotice
SelectionCanceledOutcome ==
  \E k \in NoticesAt :
    log[k].text \in {WorkspaceCanceledNotice, ProjectCanceledNotice,
                     SectionCanceledNotice}
ErrorOutcome == ErrorNoticesAt # {}
TaskCreatedOutcome == FlowSucceeded
OutcomeCount ==
  Cardinality({ n \in 1..4 :
    \/ n = 1 /\ TokenMissingOutcome
    \/ n = 2 /\ SelectionCanceledOutcome
    \/ n = 3 /\ ErrorOutcome
    \/ n = 4 /\ TaskCreatedOutcome })
EndedInOneOutcome == pc = "done" /\ OutcomeCount = 1

\* C29: when every request in flight is answered and the user chooses in or
\* closes every open picker, an invocation that has started eventually ends
\* in exactly one of: token-missing notice, selection-canceled notice, error
\* notice, task created.
C29_Terminates == (pc # "idle") ~> EndedInOneOutcome


\* the gid whose sections the flow has to fetch: the picked project's, or
\* for My Tasks the gid answered by fetchUserTaskListGid
PickedContainer ==
  IF IsMyTasks(PickedIn("Select project"))
  THEN { log[k].data.gid : k \in OkResponsesOf("fetchUserTaskListGid") }
  ELSE { PickedIn("Select project").gid }

\* the sections fetched for the container of the picked project
FetchedSections ==
  UNION { SeqToSet(log[j].data.list) :
            j \in { k \in OkResponsesOf("fetchAsanaSections") :
                      \E c \in PickedContainer :
                        log[log[k].req].url = <<"/projects/", c, "/sections">> } }

\* C30: in the TaskDetails returned by promptForTaskDetails, sectionGid is
\* empty exactly when sectionName is empty; a non-empty sectionGid is the
\* gid of a section fetched for the container of the picked project (the
\* project, or the user's task list for My Tasks) and sectionName is that
\* section's name; workspaceGid is the gid of the picked workspace; and
\* projectGid is empty exactly when My Tasks was picked.
C30_TaskDetails ==
  LET d == local.taskDetails
  IN d # NULL =>
       /\ d.sectionGid = "" <=> d.sectionName = ""
       /\ d.sectionGid # "" =>
            \E s \in FetchedSections :
              s.gid = d.sectionGid /\ s.name = d.sectionName
       /\ d.workspaceGid = PickedIn("Select workspace").gid
       /\ d.projectGid = "" <=> IsMyTasks(PickedIn("Select project"))
       /\ d.projectGid # "" => d.projectGid = PickedIn("Select project").gid

\* My Tasks was picked, two sections were fetched for the user's task list
\* and the second was chosen in the section picker
C30_Witness ==
  /\ local.taskDetails # NULL
  /\ IsMyTasks(PickedIn("Select project"))
  /\ Cardinality(FetchedSections) = 2
  /\ ResolvedAt("Select section") # {}
  /\ local.taskDetails.sectionGid = "s2"

====
